---- MODULE Spec2Model ----
(***************************************************************************)
(* Model of Lessons.py: the LessonsDB store (one SQLite table with         *)
(* AUTOINCREMENT ids) and the Tk presentation layer (App, LessonDialog).   *)
(*                                                                         *)
(* Text is modelled as a tuple of one-character strings, so that strip(),  *)
(* strptime(), SQLite's BINARY / NOCASE comparisons and int() are computed *)
(* character by character, as the code and its libraries compute them.     *)
(***************************************************************************)
EXTENDS Integers, Sequences, FiniteSets, TLC

VARIABLES
    table,        \* rows of the lessons table (set of records)
    seq,          \* sqlite_sequence.seq for lessons: largest id ever assigned
    call,         \* last LessonsDB method called directly by a client, with its return value
    var_day,      \* App.var_day (text of the day filter entry)
    var_course,   \* App.var_course (combobox selection)
    var_only_undone, \* App.var_only_undone (0/1)
    cb_values,    \* values configured on App.cb_course
    tree,         \* items of App.tree, in display order
    selection,    \* index of the selected tree item, 0 when nothing is selected
    day_filter,   \* day_filter as computed by the last _load_table
    status,       \* number shown by App.status ("Totale visibili: n")
    modal,        \* the modal window that holds the grab, if any
    last          \* what the last event did (message shown, Store calls, refresh run)

vars == <<table, seq, call, var_day, var_course, var_only_undone, cb_values,
          tree, selection, day_filter, status, modal, last>>

uiVars == <<var_day, var_course, var_only_undone, cb_values, tree, selection,
            day_filter, status, modal, last>>

----------------------------------------------------------------------------
(* Bounds of the model *)

MaxId == 3        \* ids handed out by direct Store clients
MaxRows == 2      \* rows kept at once by direct Store clients
MaxUiId == 2      \* ids handed out through the App
MaxTime == 1      \* distinct CURRENT_TIMESTAMP values

----------------------------------------------------------------------------
(* Characters and text *)

\* ASCII code of the characters the model uses
CodeTable ==
    " " :> 32 @@ "-" :> 45 @@
    "0" :> 48 @@ "1" :> 49 @@ "2" :> 50 @@ "3" :> 51 @@ "4" :> 52 @@
    "5" :> 53 @@ "6" :> 54 @@ "7" :> 55 @@ "8" :> 56 @@ "9" :> 57 @@
    ":" :> 58 @@ "A" :> 65 @@ "B" :> 66 @@ "E" :> 69 @@ "I" :> 73 @@
    "M" :> 77 @@ "T" :> 84 @@ "U" :> 85 @@
    "a" :> 97 @@ "b" :> 98 @@ "d" :> 100 @@ "i" :> 105 @@ "m" :> 109

Code(c) == CodeTable[c]

Digits == {"0", "1", "2", "3", "4", "5", "6", "7", "8", "9"}

DigitVal(c) == Code(c) - 48

DigitChar(n) == CHOOSE c \in Digits : DigitVal(c) = n

\* sqlite3UpperToLower: ASCII upper case letters fold to lower case
Lower(c) ==
    CASE c = "A" -> "a" [] c = "B" -> "b" [] c = "M" -> "m"
      [] OTHER -> c

Min(a, b) == IF a < b THEN a ELSE b

\* str.strip(): drop leading and trailing whitespace
RECURSIVE LStrip(_)
LStrip(s) == IF s # <<>> /\ Head(s) = " " THEN LStrip(Tail(s)) ELSE s

RECURSIVE RStrip(_)
RStrip(s) ==
    IF s # <<>> /\ s[Len(s)] = " " THEN RStrip(SubSeq(s, 1, Len(s) - 1)) ELSE s

Strip(s) == RStrip(LStrip(s))

\* memcmp on two sequences of codes from position i on; when one is a
\* prefix of the other the shorter comes first
RECURSIVE CodesLess(_, _, _)
CodesLess(a, b, i) ==
    IF i > Len(b) THEN FALSE
    ELSE IF i > Len(a) THEN TRUE
    ELSE IF a[i] # b[i] THEN a[i] < b[i]
    ELSE CodesLess(a, b, i + 1)

\* SQLite BINARY collation
BinaryLess(a, b) ==
    CodesLess([i \in 1..Len(a) |-> Code(a[i])], [i \in 1..Len(b) |-> Code(b[i])], 1)

NoCaseCode(c) == Code(Lower(c))

\* SQLite NOCASE collation
NoCaseLess(a, b) ==
    CodesLess([i \in 1..Len(a) |-> NoCaseCode(a[i])],
              [i \in 1..Len(b) |-> NoCaseCode(b[i])], 1)

NoCaseEq(a, b) == ~NoCaseLess(a, b) /\ ~NoCaseLess(b, a)

\* decimal value of a digit string
RECURSIVE DecValue(_)
DecValue(s) ==
    IF s = <<>> THEN 0
    ELSE 10 * DecValue(SubSeq(s, 1, Len(s) - 1)) + DigitVal(s[Len(s)])

\* str(n) for n >= 0
RECURSIVE DecString(_)
DecString(n) ==
    IF n < 10 THEN <<DigitChar(n)>>
    ELSE DecString(n \div 10) \o <<DigitChar(n % 10)>>

AllDigits(s) == s # <<>> /\ \A i \in 1..Len(s) : s[i] \in Digits

----------------------------------------------------------------------------
(* Dates *)

TUTTE == <<"T", "U", "T", "T", "E">>
TUTTI == <<"T", "U", "T", "T", "I">>

D_2025_01_05 == <<"2", "0", "2", "5", "-", "0", "1", "-", "0", "5">>
D_2025_01_10 == <<"2", "0", "2", "5", "-", "0", "1", "-", "1", "0">>
D_2025_1_5 == <<"2", "0", "2", "5", "-", "1", "-", "5">>
D_2025_13_01 == <<"2", "0", "2", "5", "-", "1", "3", "-", "0", "1">>

\* date.today().strftime(DATE_FMT)
today_iso == D_2025_01_05

IsLeap(y) == (y % 4 = 0 /\ y % 100 # 0) \/ y % 400 = 0

DaysInMonth(y, m) ==
    IF m = 2 THEN (IF IsLeap(y) THEN 29 ELSE 28)
    ELSE IF m \in {4, 6, 9, 11} THEN 30 ELSE 31

\* %m of strptime: 1[0-2]|0[1-9]|[1-9]
MonthField(s) == AllDigits(s) /\ Len(s) \in {1, 2} /\ DecValue(s) \in 1..12

\* %d of strptime: 3[01]|[12]\d|0[1-9]|[1-9]| [1-9]
DayField(s) ==
    \/ AllDigits(s) /\ Len(s) \in {1, 2} /\ DecValue(s) \in 1..31
    \/ Len(s) = 2 /\ s[1] = " " /\ s[2] \in Digits /\ DigitVal(s[2]) \in 1..9

DayFieldValue(s) == IF s[1] = " " THEN DigitVal(s[2]) ELSE DecValue(s)

\* datetime.strptime(t, "%Y-%m-%d") succeeds: the whole of t matches
\* \d\d\d\d-%m-%d and the fields make a date datetime accepts
StrptimeOk(t) ==
    /\ Len(t) >= 8
    /\ AllDigits(SubSeq(t, 1, 4))
    /\ t[5] = "-"
    /\ \E j \in 7..Min(8, Len(t) - 1) :
         /\ t[j] = "-"
         /\ MonthField(SubSeq(t, 6, j - 1))
         /\ DayField(SubSeq(t, j + 1, Len(t)))
         /\ DecValue(SubSeq(t, 1, 4)) >= 1
         /\ DayFieldValue(SubSeq(t, j + 1, Len(t)))
              <= DaysInMonth(DecValue(SubSeq(t, 1, 4)), DecValue(SubSeq(t, 6, j - 1)))

validate_iso_date(s) == StrptimeOk(Strip(s))

----------------------------------------------------------------------------
(* LessonsDB *)

Ids(tbl) == {r.id : r \in tbl}

MaxOf(S) == IF S = {} THEN 0 ELSE CHOOSE m \in S : \A x \in S : x <= m

\* INTEGER PRIMARY KEY without AUTOINCREMENT: one more than the largest rowid
\* now in the table
NextRowidReusing(tbl, s) == MaxOf(Ids(tbl)) + 1

\* AUTOINCREMENT: the new rowid is one more than the largest rowid that has
\* ever been in the table (sqlite_sequence), never a rowid used before
NextRowid(tbl, s) == MaxOf(Ids(tbl) \cup {s}) + 1

\* INSERT INTO lessons(title, course, day, done) VALUES(?,?,?,?)
add_lesson(tbl, s, title, course, day, done, now) ==
    tbl \cup {[id |-> NextRowid(tbl, s), title |-> Strip(title),
               course |-> Strip(course), day |-> Strip(day), done |-> done,
               created_at |-> now]}

\* UPDATE lessons SET title=?, course=?, day=?, done=? WHERE id=?
update_lesson(tbl, lesson_id, title, course, day, done) ==
    {IF r.id = lesson_id
     THEN [r EXCEPT !.title = Strip(title), !.course = Strip(course),
                    !.day = Strip(day), !.done = done]
     ELSE r : r \in tbl}

\* DELETE with the comparison widened to id <= ?
delete_lessonUpTo(tbl, lesson_id) == {r \in tbl : r.id > lesson_id}

\* DELETE FROM lessons WHERE id=?
delete_lesson(tbl, lesson_id) == {r \in tbl : r.id # lesson_id}

\* UPDATE lessons SET done = CASE done WHEN 0 THEN 1 ELSE 0 END WHERE id=?
toggle_done(tbl, lesson_id) ==
    {IF r.id = lesson_id
     THEN [r EXCEPT !.done = IF r.done = 0 THEN 1 ELSE 0]
     ELSE r : r \in tbl}

\* the ORDER BY with the course compared under BINARY instead of NOCASE
RowBeforeBinaryCourse(a, b) ==
    \/ BinaryLess(a.day, b.day)
    \/ /\ a.day = b.day
       /\ \/ BinaryLess(a.course, b.course)
          \/ /\ a.course = b.course
             /\ \/ a.done < b.done
                \/ a.done = b.done /\ a.id < b.id

\* ORDER BY day ASC, course COLLATE NOCASE ASC, done ASC, id ASC
RowBefore(a, b) ==
    \/ BinaryLess(a.day, b.day)
    \/ /\ a.day = b.day
       /\ \/ NoCaseLess(a.course, b.course)
          \/ /\ NoCaseEq(a.course, b.course)
             /\ \/ a.done < b.done
                \/ a.done = b.done /\ a.id < b.id

RECURSIVE SortRows(_)
SortRows(S) ==
    IF S = {} THEN <<>>
    ELSE LET first == CHOOSE r \in S : \A o \in S \ {r} : RowBefore(r, o)
         IN  <<first>> \o SortRows(S \ {first})

\* SELECT id, title, course, day, done
Selected(r) ==
    [id |-> r.id, title |-> r.title, course |-> r.course, day |-> r.day, done |-> r.done]

\* the WHERE clause with the course matched under NOCASE
WhereNoCaseCourse(r, day, course, only_undone) ==
    /\ (day # <<>> /\ day # TUTTE) => r.day = day
    /\ (course # <<>> /\ course # TUTTI) => NoCaseEq(r.course, course)
    /\ only_undone => r.done = 0

\* the WHERE clause query() builds; an empty filter is falsy in Python
Where(r, day, course, only_undone) ==
    /\ (day # <<>> /\ day # TUTTE) => r.day = day
    /\ (course # <<>> /\ course # TUTTI) => r.course = course
    /\ only_undone => r.done = 0

query(tbl, day, course, only_undone) ==
    SortRows({Selected(r) : r \in {x \in tbl : Where(x, day, course, only_undone)}})

CourseSet(tbl) == {r.course : r \in tbl}

\* SELECT DISTINCT course ... ORDER BY course COLLATE NOCASE: every order of
\* the distinct courses that is ascending under NOCASE (the order of courses
\* that differ only in case is not fixed by the statement)
list_courses(tbl) ==
    LET cs == CourseSet(tbl)
        n == Cardinality(cs)
    IN  {f \in [1..n -> cs] :
            /\ \A i, j \in 1..n : i # j => f[i] # f[j]
            /\ \A i, j \in 1..n : i < j => ~NoCaseLess(f[j], f[i])}

----------------------------------------------------------------------------
(* Inputs of direct Store clients *)

C_M == <<"M">>
C_m == <<"m">>
C_b == <<"b">>

StoreTitles == {<<" ", "A">>}
StoreCourses == {<<"M", " ">>, C_m, C_b}
StoreDays == {D_2025_01_05, D_2025_1_5}
StoreDones == {0, 1, 2}
Times == 1..MaxTime

DayFilters == {<<>>, TUTTE, D_2025_01_05, D_2025_01_10}
CourseFilters == {<<>>, TUTTI, C_M, C_b}

None == <<>>

NoCall == [op |-> "none", id |-> 0, day |-> <<>>, course |-> <<>>,
           only_undone |-> FALSE, ret |-> None]

MutatorCall(op, lesson_id) == [NoCall EXCEPT !.op = op, !.id = lesson_id]

StoreAdd ==
    /\ Cardinality(table) < MaxRows
    /\ seq < MaxId
    /\ \E title \in StoreTitles, course \in StoreCourses, day \in StoreDays,
          done \in StoreDones, now \in Times :
         /\ table' = add_lesson(table, seq, title, course, day, done, now)
         /\ seq' = NextRowid(table, seq)
         /\ call' = MutatorCall("add_lesson", NextRowid(table, seq))
    /\ UNCHANGED uiVars

StoreUpdate ==
    /\ \E lesson_id \in 1..(MaxId + 1), title \in StoreTitles,
          course \in StoreCourses, day \in StoreDays, done \in StoreDones :
         /\ table' = update_lesson(table, lesson_id, title, course, day, done)
         /\ call' = MutatorCall("update_lesson", lesson_id)
    /\ UNCHANGED <<seq, uiVars>>

StoreDelete ==
    /\ \E lesson_id \in 1..(MaxId + 1) :
         /\ table' = delete_lesson(table, lesson_id)
         /\ call' = MutatorCall("delete_lesson", lesson_id)
    /\ UNCHANGED <<seq, uiVars>>

StoreToggle ==
    /\ \E lesson_id \in 1..(MaxId + 1) :
         /\ table' = toggle_done(table, lesson_id)
         /\ call' = MutatorCall("toggle_done", lesson_id)
    /\ UNCHANGED <<seq, uiVars>>

StoreQuery ==
    /\ \E day \in DayFilters, course \in CourseFilters, only_undone \in BOOLEAN :
         call' = [op |-> "query", id |-> 0, day |-> day, course |-> course,
                  only_undone |-> only_undone,
                  ret |-> query(table, day, course, only_undone)]
    /\ UNCHANGED <<table, seq, uiVars>>

----------------------------------------------------------------------------
(* Tk widgets *)

Range(f) == {f[i] : i \in DOMAIN f}

\* int(value) of Python succeeds on the text: optional sign, then digits
IntLiteral(s) ==
    LET t == Strip(s)
    IN  /\ t # <<>>
        /\ AllDigits(IF t[1] = "-" THEN Tail(t) ELSE t)

\* ttk._convert_stringval, applied by Treeview.item() to each value it
\* returns: a value int() accepts comes back as that int; the model keeps
\* the text Tk shows for it, str(int(value))
convert_stringval(s) ==
    IF IntLiteral(s)
    THEN LET t == Strip(s)
             n == DecValue(IF t[1] = "-" THEN Tail(t) ELSE t)
         IN  IF t[1] = "-" /\ n # 0 THEN <<"-">> \o DecString(n) ELSE DecString(n)
    ELSE s

IdPrefix == <<"i", "d", ":">>

\* f"id:{r['id']}"
IdTag(lesson_id) == IdPrefix \o DecString(lesson_id)

\* the item _load_table inserts for a row of the query
Item(r) ==
    [values |-> <<r.day, r.course, r.title, IF r.done # 0 THEN "Fatta" ELSE "Da fare">>,
     tags |-> <<IdTag(r.id), IF r.done # 0 THEN "done" ELSE "todo">>]

Render(rows) == [i \in 1..Len(rows) |-> Item(rows[i])]

\* App._get_selected_row: <<>> stands for None, <<row>> for the dict
get_selected_row(tr, sel) ==
    IF sel = 0 THEN <<>>
    ELSE LET item == tr[sel]
             tag0 == item.tags[1]
             vals == [i \in 1..4 |->
                        IF i = 4 THEN item.values[4]
                        ELSE convert_stringval(item.values[i])]
         IN  IF item.tags = <<>> THEN <<>>
             ELSE IF Len(tag0) < 3 \/ SubSeq(tag0, 1, 3) # IdPrefix THEN <<>>
             ELSE <<[id |-> DecValue(SubSeq(tag0, 4, Len(tag0))),
                     day |-> vals[1], course |-> vals[2], title |-> vals[3],
                     done |-> IF vals[4] = "Fatta" THEN 1 ELSE 0]>>

\* App._refresh_courses, given the result of list_courses()
refresh_courses(courses, vc) ==
    LET values == <<TUTTI>> \o courses
    IN  [cb_values |-> values,
         var_course |-> IF vc \in Range(values) THEN vc ELSE TUTTI]

\* _load_table passing no only_undone restriction to the query
load_tableIgnoringFlag(tbl, vd, vc, vo, courses) ==
    LET df == IF Strip(vd) = <<>> THEN TUTTE ELSE Strip(vd)
        cf == IF Strip(vc) = <<>> THEN TUTTI ELSE Strip(vc)
        rows == query(tbl, df, cf, FALSE)
        rc == refresh_courses(courses, vc)
    IN  [tree |-> Render(rows), day_filter |-> df, status |-> Len(rows),
         cb_values |-> rc.cb_values, var_course |-> rc.var_course]

\* App._load_table: the view it leaves behind
load_table(tbl, vd, vc, vo, courses) ==
    LET df == IF Strip(vd) = <<>> THEN TUTTE ELSE Strip(vd)
        cf == IF Strip(vc) = <<>> THEN TUTTI ELSE Strip(vc)
        rows == query(tbl, df, cf, vo # 0)
        rc == refresh_courses(courses, vc)
    IN  [tree |-> Render(rows), day_filter |-> df, status |-> Len(rows),
         cb_values |-> rc.cb_values, var_course |-> rc.var_course]

\* _reload_all refreshing the course options but not the list
reload_allCoursesOnly(tbl, vd, vc, vo, courses) ==
    [tree |-> tree, day_filter |-> day_filter, status |-> status,
     cb_values |-> refresh_courses(courses, vc).cb_values,
     var_course |-> refresh_courses(courses, vc).var_course]

\* App._reload_all
reload_all(tbl, vd, vc, vo, courses) ==
    load_table(tbl, vd, refresh_courses(courses, vc).var_course, vo, courses)

\* the widgets take the view; deleting the items empties the selection
Show(view) ==
    /\ tree' = view.tree
    /\ day_filter' = view.day_filter
    /\ status' = view.status
    /\ cb_values' = view.cb_values
    /\ var_course' = view.var_course
    /\ selection' = 0

NoModal == [kind |-> "none", mode |-> "none", row |-> <<>>,
            e_title |-> <<>>, e_course |-> <<>>, e_day |-> <<>>, var_done |-> 0]

\* LessonDialog.__init__: the pre-filled form
LessonDialog(mode, row, initial_title, initial_course, initial_day, initial_done) ==
    [kind |-> "LessonDialog", mode |-> mode, row |-> row,
     e_title |-> initial_title, e_course |-> initial_course,
     e_day |-> initial_day, var_done |-> initial_done]

AskYesNo(row) == [NoModal EXCEPT !.kind = "askyesno", !.mode = "delete", !.row = row]

\* msg: the messagebox function the handler called ("showerror", "showinfo")
\* or the answer askyesno returned; calls: the Store methods it called, in
\* order; reload: the refresh routine it ran
Handled(msg, calls, reload) == [msg |-> msg, calls |-> calls, reload |-> reload]

NoPayload == [title |-> <<>>, course |-> <<>>, day |-> <<>>, done |-> 0]

StoreCall(op, lesson_id, payload) == [op |-> op, id |-> lesson_id, payload |-> payload]

----------------------------------------------------------------------------
(* What the user can enter *)

UiTitles == {<<" ">>, <<"0", "7", " ">>}
UiCourses == {C_M, <<"m", " ">>}
UiDays == {D_2025_1_5, D_2025_13_01}
UiDayFilters == {D_2025_13_01}

----------------------------------------------------------------------------
(* App: one action per event handler *)

Init ==
    /\ table = {}
    /\ seq = 0
    /\ call = NoCall
    /\ var_day = TUTTE
    /\ var_course = TUTTI
    /\ var_only_undone = 0
    /\ cb_values = <<TUTTI>>
    /\ tree = <<>>
    /\ selection = 0
    /\ day_filter = TUTTE
    /\ status = 0
    /\ modal = NoModal
    /\ last = Handled("", <<>>, "_load_table")

Idle == modal.kind = "none"

\* the user edits the text of the day filter entry (textvariable var_day)
TypeDay ==
    /\ Idle
    /\ \E d \in UiDayFilters : var_day' = d
    /\ last' = Handled("", <<>>, "none")
    /\ UNCHANGED <<table, seq, call, var_course, var_only_undone, cb_values, tree,
                   selection, day_filter, status, modal>>

\* the user clicks a row of the tree (selectmode="browse")
SelectRow ==
    /\ Idle
    /\ \E i \in 1..Len(tree) : selection' = i
    /\ last' = Handled("", <<>>, "none")
    /\ UNCHANGED <<table, seq, call, var_day, var_course, var_only_undone, cb_values,
                   tree, day_filter, status, modal>>

ApplyFilters ==
    /\ Idle
    /\ LET day == Strip(var_day)
       IN  IF day # TUTTE /\ day # <<>> /\ ~validate_iso_date(day)
           THEN /\ last' = Handled("showerror", <<>>, "none")
                /\ UNCHANGED <<var_course, cb_values, tree, selection, day_filter, status>>
           ELSE /\ \E courses \in list_courses(table) :
                     Show(load_table(table, var_day, var_course, var_only_undone, courses))
                /\ last' = Handled("", <<>>, "_load_table")
    /\ UNCHANGED <<table, seq, call, var_day, var_only_undone, modal>>

FilterToday ==
    /\ Idle
    /\ var_day' = today_iso
    /\ \E courses \in list_courses(table) :
         Show(load_table(table, today_iso, var_course, var_only_undone, courses))
    /\ last' = Handled("", <<>>, "_load_table")
    /\ UNCHANGED <<table, seq, call, var_only_undone, modal>>

FilterAll ==
    /\ Idle
    /\ var_day' = TUTTE
    /\ var_only_undone' = 0
    /\ \E courses \in list_courses(table) :
         Show(load_table(table, TUTTE, TUTTI, 0, courses))
    /\ last' = Handled("", <<>>, "_load_table")
    /\ UNCHANGED <<table, seq, call, modal>>

\* <<ComboboxSelected>>: the user picks one of the configured values
ComboboxSelected ==
    /\ Idle
    /\ \E c \in Range(cb_values), courses \in list_courses(table) :
         Show(load_table(table, var_day, c, var_only_undone, courses))
    /\ last' = Handled("", <<>>, "_load_table")
    /\ UNCHANGED <<table, seq, call, var_day, var_only_undone, modal>>

\* the "Solo non fatte" checkbutton flips its variable, then runs _load_table
CheckOnlyUndone ==
    /\ Idle
    /\ var_only_undone' = 1 - var_only_undone
    /\ \E courses \in list_courses(table) :
         Show(load_table(table, var_day, var_course, 1 - var_only_undone, courses))
    /\ last' = Handled("", <<>>, "_load_table")
    /\ UNCHANGED <<table, seq, call, var_day, modal>>

\* the "Ricarica" button
ReloadAll ==
    /\ Idle
    /\ \E courses \in list_courses(table) :
         Show(reload_all(table, var_day, var_course, var_only_undone, courses))
    /\ last' = Handled("", <<>>, "_reload_all")
    /\ UNCHANGED <<table, seq, call, var_day, var_only_undone, modal>>

\* App._add up to wait_window(dlg)
Add ==
    /\ Idle
    /\ seq < MaxUiId
    /\ modal' = LessonDialog("add", <<>>, <<>>, <<>>,
                             IF validate_iso_date(var_day) THEN var_day ELSE today_iso, 0)
    /\ last' = Handled("", <<>>, "none")
    /\ UNCHANGED <<table, seq, call, var_day, var_course, var_only_undone, cb_values,
                   tree, selection, day_filter, status>>

\* App._edit_selected up to wait_window(dlg)
EditSelected ==
    /\ Idle
    /\ LET row == get_selected_row(tree, selection)
       IN  IF row = <<>>
           THEN /\ last' = Handled("showinfo", <<>>, "none")
                /\ UNCHANGED modal
           ELSE /\ modal' = LessonDialog("edit", row, row[1].title, row[1].course,
                                         row[1].day, row[1].done)
                /\ last' = Handled("", <<>>, "none")
    /\ UNCHANGED <<table, seq, call, var_day, var_course, var_only_undone, cb_values,
                   tree, selection, day_filter, status>>

\* the rule LessonDialog._save finds violated by the stripped entries, ""
\* when they pass
SaveError(title, course, day) ==
    IF title = <<>> THEN "title"
    ELSE IF course = <<>> THEN "course"
    ELSE IF ~validate_iso_date(day) THEN "day"
    ELSE ""

\* LessonDialog._save on the entries as the user left them (e_day typed, left
\* as prefilled, or set by the Oggi button through _set_today) and, when they
\* pass, the rest of App._add or App._edit_selected after wait_window
DialogSave ==
    /\ modal.kind = "LessonDialog"
    /\ \E e_title \in UiTitles \cup {modal.e_title},
          e_course \in UiCourses \cup {modal.e_course},
          e_day \in UiDays \cup {modal.e_day, today_iso},
          var_done \in {0, 1}, now \in Times :
         LET title == Strip(e_title)
             course == Strip(e_course)
             day == Strip(e_day)
             result == [title |-> title, course |-> course, day |-> day, done |-> var_done]
         IN  IF SaveError(title, course, day) # ""
             THEN /\ last' = Handled("showerror", <<>>, "none")
                  /\ UNCHANGED <<table, seq, var_course, cb_values, tree, selection,
                                 day_filter, status, modal>>
             ELSE /\ modal' = NoModal
                  /\ IF modal.mode = "add"
                     THEN /\ table' = add_lesson(table, seq, title, course, day, var_done, now)
                          /\ seq' = NextRowid(table, seq)
                          /\ last' = Handled("",
                                             <<StoreCall("add_lesson", 0, result)>>,
                                             "_reload_all")
                     ELSE /\ table' = update_lesson(table, modal.row[1].id, title, course,
                                                    day, var_done)
                          /\ seq' = seq
                          /\ last' = Handled("",
                                             <<StoreCall("update_lesson", modal.row[1].id,
                                                         result)>>,
                                             "_reload_all")
                  /\ \E courses \in list_courses(table') :
                       Show(reload_all(table', var_day, var_course, var_only_undone, courses))
    /\ UNCHANGED <<call, var_day, var_only_undone>>

\* LessonDialog._cancel, after which App._add / App._edit_selected return
DialogCancel ==
    /\ modal.kind = "LessonDialog"
    /\ modal' = NoModal
    /\ last' = Handled("", <<>>, "none")
    /\ UNCHANGED <<table, seq, call, var_day, var_course, var_only_undone, cb_values,
                   tree, selection, day_filter, status>>

\* _delete_selected deleting the selected row without asking
DeleteSelectedUnconfirmed ==
    /\ Idle
    /\ LET row == get_selected_row(tree, selection)
       IN  IF row = <<>>
           THEN /\ last' = Handled("showinfo", <<>>, "none")
                /\ UNCHANGED <<table, var_course, cb_values, tree, selection,
                               day_filter, status>>
           ELSE /\ table' = delete_lesson(table, row[1].id)
                /\ \E courses \in list_courses(table') :
                     Show(reload_all(table', var_day, var_course, var_only_undone, courses))
                /\ last' = Handled("",
                                   <<StoreCall("delete_lesson", row[1].id, NoPayload)>>,
                                   "_reload_all")
    /\ UNCHANGED <<seq, call, var_day, var_only_undone, modal>>

\* App._delete_selected up to messagebox.askyesno
DeleteSelected ==
    /\ Idle
    /\ LET row == get_selected_row(tree, selection)
       IN  IF row = <<>>
           THEN /\ last' = Handled("showinfo", <<>>, "none")
                /\ UNCHANGED modal
           ELSE /\ modal' = AskYesNo(row)
                /\ last' = Handled("", <<>>, "none")
    /\ UNCHANGED <<table, seq, call, var_day, var_course, var_only_undone, cb_values,
                   tree, selection, day_filter, status>>

\* askyesno answered yes: the rest of App._delete_selected
AskYes ==
    /\ modal.kind = "askyesno"
    /\ modal' = NoModal
    /\ table' = delete_lesson(table, modal.row[1].id)
    /\ \E courses \in list_courses(table') :
         Show(reload_all(table', var_day, var_course, var_only_undone, courses))
    /\ last' = Handled("yes",
                       <<StoreCall("delete_lesson", modal.row[1].id, NoPayload)>>,
                       "_reload_all")
    /\ UNCHANGED <<seq, call, var_day, var_only_undone>>

\* askyesno answered no: App._delete_selected returns
AskNo ==
    /\ modal.kind = "askyesno"
    /\ modal' = NoModal
    /\ last' = Handled("no", <<>>, "none")
    /\ UNCHANGED <<table, seq, call, var_day, var_course, var_only_undone, cb_values,
                   tree, selection, day_filter, status>>

ToggleDoneSelected ==
    /\ Idle
    /\ LET row == get_selected_row(tree, selection)
       IN  IF row = <<>>
           THEN /\ last' = Handled("showinfo", <<>>, "none")
                /\ UNCHANGED <<table, var_course, cb_values, tree, selection,
                               day_filter, status>>
           ELSE /\ table' = toggle_done(table, row[1].id)
                /\ \E courses \in list_courses(table') :
                     Show(reload_all(table', var_day, var_course, var_only_undone, courses))
                /\ last' = Handled("",
                                   <<StoreCall("toggle_done", row[1].id, NoPayload)>>,
                                   "_reload_all")
    /\ UNCHANGED <<seq, call, var_day, var_only_undone, modal>>

Next ==
    \/ TypeDay
    \/ SelectRow
    \/ ApplyFilters
    \/ FilterToday
    \/ FilterAll
    \/ ComboboxSelected
    \/ CheckOnlyUndone
    \/ ReloadAll
    \/ Add
    \/ EditSelected
    \/ DialogSave
    \/ DialogCancel
    \/ DeleteSelected
    \/ AskYes
    \/ AskNo
    \/ ToggleDoneSelected

Spec == Init /\ [][Next]_vars

NextStore ==
    \/ StoreAdd
    \/ StoreUpdate
    \/ StoreDelete
    \/ StoreToggle
    \/ StoreQuery

SpecStore == Init /\ [][NextStore]_vars

----------------------------------------------------------------------------
(* Properties of the presentation layer, checked under Spec *)

\* YYYY-MM-DD: four digits, a hyphen, two digits, a hyphen, two digits
IsoDatePattern(s) ==
    /\ Len(s) = 10
    /\ \A i \in {1, 2, 3, 4, 6, 7, 9, 10} : s[i] \in Digits
    /\ s[5] = "-"
    /\ s[8] = "-"

WellFormedLesson(title, course, day) ==
    title # <<>> /\ course # <<>> /\ IsoDatePattern(day)

\* C1: every stored Lesson has a non-empty title, a non-empty course and a day
\* of the form YYYY-MM-DD, and no save whose entries break one of these rules
\* reaches the Store (the dialog stays open instead).
C1_StoredLessonsWellFormed ==
    /\ \A r \in table : WellFormedLesson(r.title, r.course, r.day)
    /\ \A i \in DOMAIN last.calls :
         last.calls[i].op \in {"add_lesson", "update_lesson"} =>
             WellFormedLesson(last.calls[i].payload.title, last.calls[i].payload.course,
                              last.calls[i].payload.day)

\* what the three filter controls ask for, as _load_table reads them
ControlsDay == IF Strip(var_day) = <<>> THEN TUTTE ELSE Strip(var_day)
ControlsCourse == IF Strip(var_course) = <<>> THEN TUTTI ELSE Strip(var_course)
ControlsOnlyUndone == var_only_undone # 0

\* the list and the course options show the Store as the controls filter it
ViewIsFresh ==
    /\ tree = Render(query(table, ControlsDay, ControlsCourse, ControlsOnlyUndone))
    /\ \E courses \in list_courses(table) : cb_values = <<TUTTI>> \o courses

DialogCloses == modal.kind = "LessonDialog" /\ modal'.kind = "none"

\* C7, as claimed: whenever the add/edit dialog closes, confirmed or
\* cancelled, the view then refreshes its list and its course options.
C7_RefreshAfterEveryClose ==
    [][DialogCloses => last'.reload # "none"]_vars

\* the step forwards exactly one payload that passes validation to the
\* Store method of the dialog's mode, and the table is that method's result
Confirmed ==
    /\ Len(last'.calls) = 1
    /\ LET c == last'.calls[1]
       IN  /\ c.payload.title # <<>>
           /\ c.payload.course # <<>>
           /\ validate_iso_date(c.payload.day)
           /\ c.payload.done \in {0, 1}
           /\ IF modal.mode = "add"
              THEN /\ c.op = "add_lesson"
                   /\ \E now \in Times :
                        table' = add_lesson(table, seq, c.payload.title, c.payload.course,
                                            c.payload.day, c.payload.done, now)
              ELSE /\ c.op = "update_lesson"
                   /\ c.id = modal.row[1].id
                   /\ table' = update_lesson(table, c.id, c.payload.title,
                                             c.payload.course, c.payload.day, c.payload.done)

Cancelled ==
    /\ last'.calls = <<>>
    /\ last'.reload = "none"
    /\ UNCHANGED <<table, seq, tree, cb_values, var_day, var_course, var_only_undone,
                   day_filter, status, selection>>

\* C7, amended: when the dialog closes on Confirmed, the payload goes to
\* add_lesson (add) or update_lesson (edit) and _reload_all then refreshes the
\* list and the course options from the Store; when it closes on Cancelled,
\* no Store method is called and nothing is refreshed.
C7_RefreshAfterConfirmOnly ==
    /\ [][DialogCloses =>
             \/ Confirmed /\ last'.reload = "_reload_all"
             \/ Cancelled]_vars
    /\ [](last.reload = "_reload_all" => ViewIsFresh)

\* a confirmed add has been forwarded and the list shows the new Lesson
C7_Witness ==
    /\ modal.kind = "none"
    /\ Len(last.calls) = 1
    /\ last.calls[1].op = "add_lesson"
    /\ last.reload = "_reload_all"
    /\ Len(tree) = 2

DeleteCalls(h) == {i \in DOMAIN h.calls : h.calls[i].op = "delete_lesson"}

\* C8: delete_lesson is called only from the confirmation of a selected row
\* answered yes, and on that row; a Lesson leaves the table only in such a
\* step; a declined confirmation, and a delete with no row selected, leave
\* the table and the rendered list as they were.
C8_DeleteOnlyWhenConfirmed ==
    [][/\ \A i \in DeleteCalls(last') :
            /\ modal.kind = "askyesno"
            /\ last'.msg = "yes"
            /\ selection # 0
            /\ tree[selection].tags[1] = IdTag(last'.calls[i].id)
       /\ Ids(table) \ Ids(table') # {} => DeleteCalls(last') # {}
       /\ (modal.kind = "askyesno" /\ last'.msg = "no") =>
              table' = table /\ tree' = tree
       /\ (modal.kind = "none" /\ selection = 0 /\ last'.msg = "showinfo") =>
              table' = table /\ tree' = tree /\ modal' = modal]_vars

\* the user confirmed the deletion of one of two Lessons
C8_Witness ==
    /\ last.msg = "yes"
    /\ DeleteCalls(last) # {}
    /\ Cardinality(table) = 1
    /\ Len(tree) = 1

\* C9, as claimed: in every quiescent state the rendered list is the query
\* for the current values of the three filter controls.
C9_ListFollowsControls ==
    modal.kind = "none" =>
        tree = Render(query(table, ControlsDay, ControlsCourse, ControlsOnlyUndone))

\* C9, amended: picking a course or flipping the only-incomplete flag
\* re-issues the query at once with the current values of all three controls;
\* text typed in the day filter is read only by the next load.  So in every
\* quiescent state the rendered list is the query for the day filter the last
\* load read, the current course filter and the current flag.
C9_ListFollowsLoadedFilters ==
    /\ [][(var_course' # var_course \/ var_only_undone' # var_only_undone) =>
            last'.reload # "none"]_vars
    /\ [](last.reload # "none" => day_filter = ControlsDay)
    /\ [](modal.kind = "none" =>
            tree = Render(query(table, day_filter, ControlsCourse, ControlsOnlyUndone)))

\* a course is picked and only incomplete Lessons are asked for: the list
\* shows one of the two stored Lessons
C9_Witness ==
    /\ modal.kind = "none"
    /\ var_course # TUTTI
    /\ var_only_undone = 1
    /\ Len(tree) = 1
    /\ Cardinality(table) = 2

\* C10: whenever a row is selected for edit, delete or toggle, the row
\* recovered from the tree has the id of a stored Lesson whose title, course,
\* day and done are the recovered ones.
C10_RenderedRowMatchesStore ==
    (modal.kind = "none" /\ selection # 0) =>
        LET row == get_selected_row(tree, selection)
        IN  /\ row # <<>>
            /\ \E r \in table :
                 /\ r.id = row[1].id
                 /\ r.title = row[1].title
                 /\ r.course = row[1].course
                 /\ r.day = row[1].day
                 /\ r.done = row[1].done

----------------------------------------------------------------------------
(* Properties of LessonsDB, checked under SpecStore *)

QueryReturned == call.op = "query"

\* the conjunction of the three filters, as the claim states it
Satisfies(r, dayFilter, courseFilter, onlyUndone) ==
    /\ dayFilter = <<>> \/ dayFilter = TUTTE \/ r.day = dayFilter
    /\ courseFilter = <<>> \/ courseFilter = TUTTI \/ r.course = courseFilter
    /\ ~onlyUndone \/ r.done = 0

\* C2: query returns exactly the Lessons that satisfy the conjunction of the
\* day, course and only-undone filters, each once; when none does, the
\* result is the empty list.
C2_QueryReturnsExactlyMatching ==
    QueryReturned =>
        LET matching == {r \in table :
                           Satisfies(r, call.day, call.course, call.only_undone)}
        IN  /\ {call.ret[i].id : i \in DOMAIN call.ret} = Ids(matching)
            /\ Len(call.ret) = Cardinality(matching)
            /\ \A i \in DOMAIN call.ret :
                 \E r \in matching : call.ret[i] = Selected(r)

\* a query for course "M" left out a Lesson of course "m"
C2_Witness ==
    /\ QueryReturned
    /\ call.course = C_M
    /\ Len(call.ret) = 1
    /\ \E r \in table : r.course = C_m

LowerText(s) == [i \in 1..Len(s) |-> Lower(s[i])]

Text(s) == [i \in 1..Len(s) |-> Code(s[i])]

\* a comes strictly before b: day, then course without case, then done, then id
SortsBefore(a, b) ==
    LET da == Text(a.day)
        db == Text(b.day)
        ca == Text(LowerText(a.course))
        cb == Text(LowerText(b.course))
    IN  \/ CodesLess(da, db, 1)
        \/ da = db /\ CodesLess(ca, cb, 1)
        \/ da = db /\ ca = cb /\ a.done < b.done
        \/ da = db /\ ca = cb /\ a.done = b.done /\ a.id < b.id

\* C3: the rows query returns are in strictly ascending order of (day,
\* course compared without case, done, id); no two of them tie.
C3_QuerySorted ==
    QueryReturned =>
        \A i, j \in DOMAIN call.ret :
            i < j => /\ SortsBefore(call.ret[i], call.ret[j])
                     /\ ~SortsBefore(call.ret[j], call.ret[i])

\* the Lesson inserted second is returned first, because "b" sorts before "M"
\* when case is ignored
C3_Witness ==
    /\ QueryReturned
    /\ Len(call.ret) = 2
    /\ call.ret[1].course = C_b
    /\ call.ret[2].course = C_M
    /\ call.ret[1].day = call.ret[2].day
    /\ call.ret[1].id > call.ret[2].id

Absent(lesson_id) == lesson_id \notin Ids(table)

\* C5: after delete_lesson(id) the table is the old one without the row of
\* that id, so no query returns it; toggle_done, update_lesson and
\* delete_lesson on an id that is not in the table leave the table as it was.
C5_DeleteAndAbsentIds ==
    /\ [][/\ call'.op = "delete_lesson" =>
               /\ \A r \in table : r.id # call'.id => r \in table'
               /\ \A r \in table' : r \in table /\ r.id # call'.id
          /\ (call'.op \in {"toggle_done", "update_lesson", "delete_lesson"}
                /\ Absent(call'.id)) => table' = table]_vars
    /\ [](call.op = "delete_lesson" =>
            \A d \in DayFilters, c \in CourseFilters, u \in BOOLEAN :
                \A i \in DOMAIN query(table, d, c, u) :
                    query(table, d, c, u)[i].id # call.id)

\* the Lesson with id 1 was deleted and the one with id 2 is still stored
C5_Witness ==
    /\ call.op = "delete_lesson"
    /\ call.id = 1
    /\ Ids(table) = {2}

\* C6: ids are unique; an inserted Lesson gets an id greater than every id
\* assigned before (seq, which never decreases and bounds every stored id);
\* update_lesson and toggle_done keep the ids of the stored Lessons.
C6_IdsUniqueMonotonic ==
    /\ [](\A a, b \in table : a.id = b.id => a = b)
    /\ [](\A r \in table : r.id <= seq)
    /\ [][/\ seq' >= seq
          /\ \A r \in table' : r.id \notin Ids(table) => r.id > seq
          /\ call'.op \in {"update_lesson", "toggle_done"} =>
                /\ Ids(table') = Ids(table)
                /\ Cardinality(table') = Cardinality(table)]_vars

\* ids 1, 2, 3 were assigned, 2 was deleted before 3 was assigned
C6_Witness ==
    /\ call.op = "add_lesson"
    /\ call.id = 3
    /\ Ids(table) = {1, 3}

====
